---------------------------- MODULE Spec2Model ----------------------------
(***************************************************************************)
(* A model of src/face_encoding/encoding.rs: the FaceEncoding value type   *)
(* (a dlib::matrix<double,0,1> of 128 doubles), its two constructors,      *)
(* clone, distance, to_elements, deref, Debug and PartialEq.               *)
(*                                                                         *)
(* Doubles.  An f64 is modelled as a record [k, neg, m]:                   *)
(*   k = "nan"               a NaN                                         *)
(*   k = "inf"               +infinity (neg = FALSE) or -infinity          *)
(*   k = "fin"               the integer +m or -m; [fin, TRUE, 0] is -0.0  *)
(*   k = "tiny"              +-m * 2^-1000 (m >= 1): nonzero, but so small *)
(*                           that its square underflows to +0.0            *)
(*   k = "sqrt"              the correctly rounded square root of the      *)
(*                           non-square integer m (a result of distance)   *)
(* Only "nan", "inf", "fin" and "tiny" values are elements of encodings,   *)
(* and only those are ever subtracted.                                     *)
(* On these values subtraction, squaring, addition and square root are     *)
(* exact or round as IEEE-754 round-to-nearest prescribes, so the          *)
(* operators below compute what the hardware computes.  Two records are    *)
(* the same record iff the doubles are the same value (one NaN stands for  *)
(* all NaN payloads).                                                      *)
(***************************************************************************)
EXTENDS Integers, Sequences, FiniteSets, TLC

\* The dimension of an encoding: dlib::matrix<double,0,1>(128) and the
\* bound of every element loop.
N == 128

\* Largest integer magnitude among the finite input values.
MaxVal == 1

--------------------------------------------------------------------------
(* f64 values *)

F(k, neg, m) == [k |-> k, neg |-> neg, m |-> m]

NaN  == F("nan", FALSE, 0)
PInf == F("inf", FALSE, 0)
Zero == F("fin", FALSE, 0)
NegZero == F("fin", TRUE, 0)
One  == F("fin", FALSE, 1)
Tiny == F("tiny", FALSE, 1)

IsNaN(x) == x.k = "nan"
IsFinite(x) == x.k \in {"fin", "tiny", "sqrt"}
IsZero(x) == x.k = "fin" /\ x.m = 0

\* f64 == f64 (IEEE): NaN is unequal to everything, -0.0 == +0.0.
f64_eq(x, y) ==
    IF IsNaN(x) \/ IsNaN(y) THEN FALSE
    ELSE IF IsZero(x) /\ IsZero(y) THEN TRUE
    ELSE x = y

FNeg(x) == IF IsNaN(x) THEN x ELSE F(x.k, ~x.neg, x.m)

\* The signed integer of a "fin" or "tiny" value (in units of 1 or 2^-1000).
Signed(x) == IF x.neg THEN 0 - x.m ELSE x.m

Abs(n) == IF n < 0 THEN 0 - n ELSE n

\* x - y on two values of the same scale k ("fin" or "tiny"): exact.
\* An exact zero result is +0.0, except (-0.0) - (+0.0) = -0.0.
SubSameScale(k, x, y) ==
    LET r == Signed(x) - Signed(y)
    IN  IF r # 0 THEN F(k, r < 0, Abs(r))
        ELSE F("fin", x.neg /\ ~y.neg /\ x.m = 0, 0)

\* IEEE-754 x - y, round to nearest.
FSub(x, y) ==
    IF IsNaN(x) \/ IsNaN(y) THEN NaN
    ELSE IF x.k = "inf" THEN (IF y.k = "inf" /\ y.neg = x.neg THEN NaN ELSE x)
    ELSE IF y.k = "inf" THEN FNeg(y)
    ELSE IF x.k = y.k THEN SubSameScale(x.k, x, y)
    ELSE IF x.k = "tiny" THEN (IF IsZero(y) THEN x ELSE FNeg(y))
    ELSE (IF IsZero(x) THEN FNeg(y) ELSE x)

\* IEEE-754 x + y: the same as x - (-y).
FAdd(x, y) == FSub(x, FNeg(y))

\* IEEE-754 x * x.  The square of a "tiny" underflows to +0.0.
FSquare(x) ==
    IF IsNaN(x) THEN NaN
    ELSE IF x.k = "inf" THEN PInf
    ELSE IF x.k = "tiny" THEN Zero
    ELSE F("fin", FALSE, x.m * x.m)

IsSquare(n) == \E r \in 0..n : r * r = n
Root(n) == CHOOSE r \in 0..n : r * r = n

\* std::sqrt on a sum of squares (never a "tiny" or "sqrt" value).
FSqrt(x) ==
    IF IsNaN(x) THEN NaN
    ELSE IF x.k = "inf" THEN (IF x.neg THEN NaN ELSE PInf)
    ELSE IF x.m = 0 THEN x
    ELSE IF x.neg THEN NaN
    ELSE IF IsSquare(x.m) THEN F("fin", FALSE, Root(x.m))
    ELSE F("sqrt", FALSE, x.m)

--------------------------------------------------------------------------
(* The operations of FaceEncoding.  An inner matrix (dlib::matrix<double,0,1>)
   is a sequence of doubles; a [f64; 128] array and a &[f64] slice are
   sequences as well. *)

\* The outcome of a dlib expression whose operands' dimensions differ
\* (dlib's DLIB_ASSERT aborts; without assertions the read is out of bounds).
Abort == F("abort", FALSE, 0)

\* A double of freshly allocated matrix storage that nothing has written.
Uninit == F("uninit", FALSE, 0)

\* dlib::matrix<double,0,1>(n): n rows of unwritten storage.
Matrix(n) == [i \in 1..n |-> Uninit]

\* Mutant of new_from_scalar: the fill loop stops one element early.
new_from_scalar_short(scalar) ==
    LET inner == Matrix(N)
    IN  [i \in 1..Len(inner) |-> IF i < N THEN scalar ELSE inner[i]]

\* new_from_scalar: auto inner = matrix(128); inner(i) = scalar for every
\* i in 0..127 (positions 1..N here).
new_from_scalar(scalar) ==
    LET inner == Matrix(N)
    IN  [i \in 1..Len(inner) |-> IF i <= N THEN scalar ELSE inner[i]]

\* Mutant of new: the matrix is allocated one row short.
new_undersized(elements) ==
    LET inner == Matrix(N - 1)
    IN  [i \in 1..Len(inner) |-> IF i <= N THEN elements[i] ELSE inner[i]]

\* new: auto inner = matrix(128); inner(i) = elements[i] for every i in
\* 0..127.
new(elements) ==
    LET inner == Matrix(N)
    IN  [i \in 1..Len(inner) |-> IF i <= N THEN elements[i] ELSE inner[i]]

\* #[derive(Clone)]: the matrix's copy constructor copies every element
\* into storage of its own.
clone(inner) == [i \in 1..Len(inner) |-> inner[i]]

\* Mutant of MatSub: the elementwise sum (*self + *other).
MatSub_plus(a, b) == [i \in 1..Len(a) |-> FAdd(a[i], b[i])]

\* *self - *other: the elementwise difference of two column vectors.
MatSub(a, b) == [i \in 1..Len(a) |-> FSub(a[i], b[i])]

\* Mutant of Squared: the elements are not squared.
Squared_unsquared(m) == m

\* dlib::squared(m): every element times itself.
Squared(m) == [i \in 1..Len(m) |-> FSquare(m[i])]

\* The loop `val += m(i)` run for i = lo..hi in index order, starting from
\* val: the first half of the range, then the second half from its result.
\* Once the running total is NaN it stays NaN whatever is added.
RECURSIVE SumLoop(_, _, _, _)
SumLoop(m, lo, hi, val) ==
    IF lo > hi THEN val
    ELSE IF lo = hi THEN FAdd(val, m[lo])
    ELSE LET mid == (lo + hi) \div 2
             first == SumLoop(m, lo, mid, val)
         IN  IF IsNaN(first) THEN NaN ELSE SumLoop(m, mid + 1, hi, first)

\* dlib::sum(m): val = 0; val += m(i) for every i, in index order.
Sum(m) == SumLoop(m, 1, Len(m), Zero)

\* Mutant of Length: the sum of squares without the square root.
Length_nosqrt(m) == Sum(Squared(m))

\* dlib::length(m) = std::sqrt(sum(squared(m))).
Length(m) == FSqrt(Sum(Squared(m)))

\* Mutant of distance: the length of *self, the subtraction left out.
distance_of_self(self, other) ==
    IF Len(self) # Len(other) THEN Abort ELSE Length(self)

\* distance: dlib::length(*self - *other).
distance(self, other) ==
    IF Len(self) # Len(other) THEN Abort ELSE Length(MatSub(self, other))

\* The [f64; 128] that to_elements starts from: let elements = [0f64; 128].
ZeroArray == [i \in 1..N |-> Zero]

\* to_elements: the set of arrays a call can return.  The C++ block writes
\* elements[i] = (*self)(i) for i in 0..127 through a pointer taken from a
\* shared reference to the immutable binding `elements` (it is declared
\* without `mut`).  Writing the bytes of an immutable binding is undefined
\* behaviour in Rust: the compiler may return the array the C++ block wrote,
\* or the [0f64; 128] the binding was initialised with.
to_elements(self) == { [i \in 1..N |-> self[i]], ZeroArray }

\* deref: len = matrix->size(); an empty slice when len == 0, otherwise
\* slice::from_raw_parts(&matrix(0), len).
deref(inner) ==
    LET len == Len(inner)
    IN  IF len = 0 THEN << >> ELSE [i \in 1..len |-> inner[i]]

\* Mutant of slice_eq: the two slices compared as bytes (memcmp) instead of
\* element by element with f64 ==.
slice_eq_bits(s, t) == s = t

\* <[f64] as PartialEq>::eq: equal lengths and elementwise f64 ==.
slice_eq(s, t) ==
    /\ Len(s) = Len(t)
    /\ \A i \in 1..Len(s) : f64_eq(s[i], t[i])

\* PartialEq for FaceEncoding: self.deref().eq(other.deref()).
eq(self, other) == slice_eq(deref(self), deref(other))

\* Decimal digits of a natural number.
Digit(d) == <<"0", "1", "2", "3", "4", "5", "6", "7", "8", "9">>[d + 1]

RECURSIVE NatStr(_)
NatStr(n) == IF n < 10 THEN Digit(n) ELSE NatStr(n \div 10) \o Digit(n % 10)

\* <f64 as Debug>::fmt on an element of an encoding.
f64_fmt(x) ==
    IF IsNaN(x) THEN "NaN"
    ELSE IF x.k = "inf" THEN (IF x.neg THEN "-inf" ELSE "inf")
    ELSE IF x.k = "tiny"
         THEN (IF x.neg THEN "-" ELSE "") \o NatStr(x.m) \o "*2^-1000"
    ELSE (IF x.neg THEN "-" ELSE "") \o NatStr(x.m) \o ".0"

\* Debug for FaceEncoding: self.deref().fmt(fmt), the list of the elements.
fmt(self) == LET s == deref(self) IN [i \in 1..Len(s) |-> f64_fmt(s[i])]

--------------------------------------------------------------------------
(* The caller: a program holding FaceEncoding values in two variables and
   calling the exposed operations on them in any order. *)

\* The caller's two variables of type FaceEncoding.
Slots == {"a", "b"}

\* The f64 values the caller passes in.
InputValues ==
    {NaN, PInf, NegZero, Tiny} \cup {F("fin", FALSE, m) : m \in 0..MaxVal}

\* The values the caller writes into an array that to_elements returned.
WrittenValues == {One, NaN}

\* Element positions the caller writes: the first and the last.
Positions == {1, N}

\* The [f64; 128] arrays the caller passes to new: a zeroed array with at
\* most one element overwritten (the test's `let mut elements = [0f64; 128]`
\* followed by `*element = ...`).
InputArrays ==
    {ZeroArray} \cup
    {[ZeroArray EXCEPT ![p] = v] : p \in Positions, v \in InputValues}

VARIABLES
    encs,    \* encs[s]: whether variable s holds an encoding, and its matrix
    origin,  \* origin[s]: the constructor call that built encs[s] (history)
    ret      \* the last call: operation, operands and what it returned

vars == <<encs, origin, ret>>

NoEnc == [live |-> FALSE, inner |-> << >>]
Enc(inner) == [live |-> TRUE, inner |-> inner]

NoOrigin == [ctor |-> "none", arg |-> << >>]

\* A call record.  num: an f64 result; flag: a bool result; arr: an array or
\* slice result; text: the Debug output.  Unused fields hold a default.
Ret(op, x, y, num, flag, arr, text) ==
    [op |-> op, x |-> x, y |-> y, num |-> num, flag |-> flag, arr |-> arr,
     text |-> text]

Live == {s \in Slots : encs[s].live}

Init ==
    /\ encs = [s \in Slots |-> NoEnc]
    /\ origin = [s \in Slots |-> NoOrigin]
    /\ ret = Ret("none", "a", "a", Zero, FALSE, << >>, << >>)

\* let s = FaceEncoding::new_from_scalar(scalar);
NewFromScalar(s, scalar) ==
    /\ encs' = [encs EXCEPT ![s] = Enc(new_from_scalar(scalar))]
    /\ origin' = [origin EXCEPT ![s] = [ctor |-> "scalar", arg |-> <<scalar>>]]
    /\ ret' = Ret("new_from_scalar", s, s, Zero, FALSE, << >>, << >>)

\* let s = FaceEncoding::new(&elements);
New(s, elements) ==
    /\ encs' = [encs EXCEPT ![s] = Enc(new(elements))]
    /\ origin' = [origin EXCEPT ![s] = [ctor |-> "new", arg |-> elements]]
    /\ ret' = Ret("new", s, s, Zero, FALSE, << >>, << >>)

\* let d = s.clone();
Clone(d, s) ==
    /\ s \in Live
    /\ d # s
    /\ encs' = [encs EXCEPT ![d] = Enc(clone(encs[s].inner))]
    /\ origin' = [origin EXCEPT ![d] = origin[s]]
    /\ ret' = Ret("clone", d, s, Zero, FALSE, << >>, << >>)

\* The variable s goes out of scope.
Drop(s) ==
    /\ s \in Live
    /\ encs' = [encs EXCEPT ![s] = NoEnc]
    /\ origin' = [origin EXCEPT ![s] = NoOrigin]
    /\ ret' = Ret("drop", s, s, Zero, FALSE, << >>, << >>)

\* Mutant of Distance: the difference is computed in place (*self -= *other).
Distance_inplace(x, y) ==
    /\ x \in Live /\ y \in Live
    /\ encs' = [encs EXCEPT
                  ![x] = Enc(MatSub(encs[x].inner, encs[y].inner))]
    /\ ret' = Ret("distance", x, y, Length(encs'[x].inner), FALSE,
                  << >>, << >>)
    /\ UNCHANGED origin

\* x.distance(&y)
Distance(x, y) ==
    /\ x \in Live /\ y \in Live
    /\ ret' = Ret("distance", x, y, distance(encs[x].inner, encs[y].inner),
                  FALSE, << >>, << >>)
    /\ UNCHANGED <<encs, origin>>

\* x == y
Eq(x, y) ==
    /\ x \in Live /\ y \in Live
    /\ ret' = Ret("eq", x, y, Zero, eq(encs[x].inner, encs[y].inner),
                  << >>, << >>)
    /\ UNCHANGED <<encs, origin>>

\* let mut out = x.to_elements();
ToElements(x) ==
    /\ x \in Live
    /\ \E out \in to_elements(encs[x].inner) :
           ret' = Ret("to_elements", x, x, Zero, FALSE, out, << >>)
    /\ UNCHANGED <<encs, origin>>

\* out[p] = v; on the array a to_elements call returned.
WriteReturned(p, v) ==
    /\ ret.op = "to_elements"
    /\ ret' = [ret EXCEPT !.op = "written", !.arr = [ret.arr EXCEPT ![p] = v]]
    /\ UNCHANGED <<encs, origin>>

\* &*x (indexing and iteration go through it)
Deref(x) ==
    /\ x \in Live
    /\ ret' = Ret("deref", x, x, Zero, FALSE, deref(encs[x].inner), << >>)
    /\ UNCHANGED <<encs, origin>>

\* format!("{:?}", x)
Debug(x) ==
    /\ x \in Live
    /\ ret' = Ret("fmt", x, x, Zero, FALSE, << >>, fmt(encs[x].inner))
    /\ UNCHANGED <<encs, origin>>

Next ==
    \/ \E s \in Slots, scalar \in InputValues : NewFromScalar(s, scalar)
    \/ \E s \in Slots, elements \in InputArrays : New(s, elements)
    \/ \E d \in Slots, s \in Slots : Clone(d, s)
    \/ \E s \in Slots : Drop(s)
    \/ \E x \in Slots, y \in Slots : Distance(x, y)
    \/ \E x \in Slots, y \in Slots : Eq(x, y)
    \/ \E x \in Slots : ToElements(x)
    \/ \E p \in Positions, v \in WrittenValues : WriteReturned(p, v)
    \/ \E x \in Slots : Deref(x)
    \/ \E x \in Slots : Debug(x)

Spec == Init /\ [][Next]_vars

--------------------------------------------------------------------------
(* Properties.  After a call that does not rebind a variable, ret names its
   operands and encs still holds them. *)

Self  == encs[ret.x].inner
Other == encs[ret.y].inner

\* The variable s was built by new_from_scalar (possibly through clones).
FromScalar(s) == origin[s].ctor = "scalar"
ScalarOf(s) == origin[s].arg[1]

\* The variable s was built by new (possibly through clones).
FromArray(s) == origin[s].ctor = "new"
ArrayOf(s) == origin[s].arg

AllFinite(m) == \A i \in 1..Len(m) : IsFinite(m[i])

C2_EqIffElementsEqual ==
    ret.op = "eq" =>
        /\ Len(Self) = N /\ Len(Other) = N
        /\ ret.flag <=> (\A i \in 1..N : f64_eq(Self[i], Other[i]))
        /\ (FromArray(ret.x) /\ FromArray(ret.y)) =>
               ((\E i \in 1..N : ~f64_eq(ArrayOf(ret.x)[i], ArrayOf(ret.y)[i]))
                    => ~ret.flag)

\* An eq call on two encodings built by new from arrays that differ in the
\* last element only, and one on two equal encodings that are not the same
\* bits (-0.0 against +0.0).
C2_Witness ==
    /\ ret.op = "eq"
    /\ FromArray("a") /\ FromArray("b")
    /\ ArrayOf("a")[N] = One /\ ArrayOf("b")[N] = NegZero
    /\ ArrayOf("a")[1] = ArrayOf("b")[1]
    /\ ~ret.flag

\* The elementwise differences of two encodings, as a set.
Diffs(a, b) == {FSub(a[i], b[i]) : i \in 1..N}

\* The sum over i of (a_i - b_i)^2 for integer differences, each distinct
\* difference counted as often as it occurs; a difference whose square
\* underflows adds nothing.
RECURSIVE SumOver(_, _, _)
SumOver(D, a, b) ==
    IF D = {} THEN 0
    ELSE LET d == CHOOSE e \in D : TRUE
             count == Cardinality({i \in 1..N : FSub(a[i], b[i]) = d})
             term == IF d.k = "fin" THEN count * d.m * d.m ELSE 0
         IN  term + SumOver(D \ {d}, a, b)

\* The square root of a natural number as an f64.
SqrtOfNat(n) ==
    IF \E r \in 0..n : r * r = n
    THEN F("fin", FALSE, CHOOSE r \in 0..n : r * r = n)
    ELSE F("sqrt", FALSE, n)

\* sqrt(sum over i of (a_i - b_i)^2): NaN when a difference is NaN,
\* otherwise +infinity when a difference is infinite.
Euclidean(a, b) ==
    IF \E d \in Diffs(a, b) : IsNaN(d) THEN NaN
    ELSE IF \E d \in Diffs(a, b) : d.k = "inf" THEN PInf
    ELSE SqrtOfNat(SumOver(Diffs(a, b), a, b))

\* sqrt(128 * (s - t)^2) for two scalars.
ScalarDistance(s, t) ==
    LET d == FSub(s, t)
    IN  IF IsNaN(d) THEN NaN
        ELSE IF d.k = "inf" THEN PInf
        ELSE IF d.k = "tiny" THEN Zero
        ELSE SqrtOfNat(N * d.m * d.m)

\* C3: distance(a, b) is sqrt(sum over i of (a_i - b_i)^2); between
\* new_from_scalar(s) and new_from_scalar(t) it is sqrt(128 * (s - t)^2),
\* and between new_from_scalar(0.0) and new_from_scalar(1.0) it is sqrt(128).
C3_DistanceIsEuclidean ==
    ret.op = "distance" =>
        /\ ret.num = Euclidean(Self, Other)
        /\ (FromScalar(ret.x) /\ FromScalar(ret.y)) =>
               ret.num = ScalarDistance(ScalarOf(ret.x), ScalarOf(ret.y))
        /\ (FromScalar(ret.x) /\ FromScalar(ret.y)
              /\ ScalarOf(ret.x) = Zero /\ ScalarOf(ret.y) = One) =>
               ret.num = F("sqrt", FALSE, 128)

\* distance between new_from_scalar(0.0) and new_from_scalar(1.0).
C3_Witness ==
    /\ ret.op = "distance"
    /\ FromScalar(ret.x) /\ ScalarOf(ret.x) = Zero
    /\ FromScalar(ret.y) /\ ScalarOf(ret.y) = One
    /\ ret.num = F("sqrt", FALSE, 128)

\* C4: distance is symmetric: x.distance(&y) returns the value that
\* y.distance(&x) returns (both NaN when one is).
C4_DistanceSymmetric ==
    ret.op = "distance" => ret.num = distance(Other, Self)

\* distance between two encodings that differ in one element: a finite
\* nonzero result.
C4_Witness ==
    /\ ret.op = "distance"
    /\ ret.x # ret.y
    /\ Self # Other
    /\ ret.num = One

\* C5 as stated: distance(a, b) is zero iff a == b, and distance(a, a) is
\* 0.0 for every encoding a.
C5_ZeroIffEqual ==
    ret.op = "distance" =>
        /\ f64_eq(ret.num, Zero) <=> eq(Self, Other)
        /\ ret.x = ret.y => f64_eq(ret.num, Zero)

\* C5, amended: for encodings whose elements are all finite, a == b implies
\* distance(a, b) == 0.0 (so distance(a, a) == 0.0); and whenever
\* distance(a, b) == 0.0, corresponding elements are equal or differ by so
\* little that the squared difference underflows to zero.
C5_ZeroWhenEqualFinite ==
    ret.op = "distance" =>
        /\ (AllFinite(Self) /\ AllFinite(Other) /\ eq(Self, Other)) =>
               ret.num = Zero
        /\ (AllFinite(Self) /\ ret.x = ret.y) => ret.num = Zero
        /\ f64_eq(ret.num, Zero) =>
               \A i \in 1..N :
                   \/ f64_eq(Self[i], Other[i])
                   \/ FSub(Self[i], Other[i]).k = "tiny"

\* distance 0.0 between two finite encodings that are equal without being
\* the same bits (-0.0 against +0.0 in one element).
C5_Witness ==
    /\ ret.op = "distance"
    /\ ret.x # ret.y
    /\ AllFinite(Self) /\ AllFinite(Other)
    /\ Self # Other
    /\ eq(Self, Other)
    /\ ret.num = Zero

\* C6 as stated: for every f64 s, NaN and the infinities included,
\* new_from_scalar(s) equals itself and has distance 0 from itself.
C6_ScalarSelfEqual ==
    (FromScalar(ret.x) /\ ret.x = ret.y) =>
        /\ ret.op = "eq" => ret.flag
        /\ ret.op = "distance" => f64_eq(ret.num, Zero)

\* C6, amended: for every finite s (neither NaN nor an infinity),
\* new_from_scalar(s) equals itself and has distance 0.0 from itself.
C6_FiniteScalarSelfEqual ==
    (FromScalar(ret.x) /\ ret.x = ret.y /\ IsFinite(ScalarOf(ret.x))) =>
        /\ ret.op = "eq" => ret.flag
        /\ ret.op = "distance" => ret.num = Zero

\* distance of new_from_scalar(1.0) from itself.
C6_Witness ==
    /\ ret.op = "distance"
    /\ ret.x = ret.y
    /\ FromScalar(ret.x) /\ ScalarOf(ret.x) = One
    /\ ret.num = Zero

\* C7: every encoding a variable holds has exactly 128 elements, all of
\* them written, and the slice deref returns has length 128 (never the empty
\* slice of the len == 0 branch).
C7_Always128 ==
    /\ \A s \in Live :
           /\ Len(encs[s].inner) = N
           /\ \A i \in 1..N : encs[s].inner[i] # Uninit
    /\ ret.op = "deref" => (Len(ret.arr) = N /\ ret.arr # << >>)

\* A deref of an encoding while both variables hold one, the two built by
\* different constructors.
C7_Witness ==
    /\ ret.op = "deref"
    /\ Live = Slots
    /\ FromScalar("a") /\ FromArray("b")
    /\ Len(ret.arr) = N

C9_Total ==
    /\ ret.op = "new" =>
           (encs[ret.x].live /\ DOMAIN encs[ret.x].inner = 1..N)
    /\ ret.op = "distance" =>
           (ret.num # Abort /\ ret.num.k \in {"nan", "inf", "fin", "sqrt"})
    /\ ret.op = "eq" => ret.flag \in BOOLEAN

\* A distance call on an encoding built by new and one built by
\* new_from_scalar(NaN): it returns NaN, a value.
C9_Witness ==
    /\ ret.op = "distance"
    /\ FromArray(ret.x)
    /\ FromScalar(ret.y) /\ ScalarOf(ret.y) = NaN
    /\ ret.num = NaN

\* The calls that take their operands by shared reference.
ReadOnlyOps == {"distance", "to_elements", "written", "deref", "fmt", "eq"}

\* C10: distance, to_elements, deref, ==, Debug and a write into an array
\* that to_elements returned leave every encoding as it was; a clone holds
\* the elements of its original, and every step changes at most the one
\* variable it rebinds or drops, so a clone and its original are independent.
C10_ReadOnly ==
    [][ /\ ret'.op \in ReadOnlyOps => encs' = encs
        /\ ret'.op = "clone" =>
               /\ encs'[ret'.y] = encs[ret'.y]
               /\ encs'[ret'.x].inner = encs[ret'.y].inner
        /\ \A s \in Slots : encs'[s] # encs[s] => ret'.x = s
      ]_vars

\* A write into the array to_elements returned has made it differ from the
\* encoding it was read from, which still holds its elements.
C10_Witness ==
    /\ ret.op = "written"
    /\ FromScalar(ret.x) /\ ScalarOf(ret.x) = Zero
    /\ ret.arr[N] = One
    /\ Self[N] = Zero

==========================================================================
